---- MODULE Spec2Model ----
(***************************************************************************)
(* db-connect-checker: the one-shot readiness check (main ->               *)
(* mysqlcheck.CheckConnections, one retry goroutine per MySQL target, then *)
(* the MongoDB retry loop) and the periodic metrics exporter               *)
(* (metrics.MultiMySQLExporter: Start / Stop / performChecks / Collect).   *)
(***************************************************************************)
EXTENDS Integers, Sequences, FiniteSets, TLC

\* ---------------------------------------------------------------- bounds
MaxTargets == 2
MaxTries == 2
NegTries == 1
MaxStarts == 2
MaxCycles == 2
MaxCollectors == 1
MaxInterval == 31
MaxProbes == 2
MaxRows == 2
MaxIndex == 1

\* ------------------------------------------------------- program constants
ExitSetupError == 1
ExitAttemptsExhausted == 2
DocExitAttemptsExhausted == 2
\* The status of a Go process ended by an unrecovered panic.
ExitPanic == 2
\* Check intervals, in seconds.
DefaultCheckInterval == 30
EnvDefaultCheckInterval == 30
DocDefaultCheckInterval == 30

\* ------------------------------------------------------------- data model
Nil == "nil"
NoCall == "no call yet"

\* types.MysqlConfig values the environment can yield (TLSConfig is set by
\* the loader exactly when TLS is on).
ConfigPool ==
    { [Name |-> "db1", User |-> "root", Pass |-> "pw", Host |-> "h1",
       Port |-> "3306", TLS |-> FALSE, TLSConfig |-> Nil],
      [Name |-> "db2", User |-> "root", Pass |-> "pw", Host |-> "h2",
       Port |-> "3307", TLS |-> TRUE, TLSConfig |-> "tlsconf"] }

SeqsUpTo(S, n) == UNION { [1..k -> S] : k \in 0..n }

\* The errors CheckConnection can return for a target, or Nil.
ErrRegisterTLS == "cannot register TLS config for MySQL connection"
ErrConnect == "error connect"
ErrGetTables == "error getting tables"

CheckConnection(cfg) ==
    {Nil, ErrConnect, ErrGetTables}
        \cup (IF cfg.TLS THEN {ErrRegisterTLS} ELSE {})

\* A back-off counted from attempt 0 instead of attempt 1.
sleepSZeroBased(i) == 3 * (i - 1) + 1

\* The back-off before the retry that follows failed attempt i.
sleepS(i) == 3 * i + 1

\* The identity that opens the diagnostic of a failed attempt:
\* fmt.Fprintf(os.Stderr, "[%s:%s/%s] Try ...", Host, Port, Name, ...)
DiagnosticIdentity(cfg) ==
    << "[", cfg.Host, ":", cfg.Port, "/", cfg.Name, "]" >>

\* fmt.Errorf("[%s:%s/%s] connection attempts have failed", Host, Name, Port)
ExhaustedError(cfg) ==
    << "[", cfg.Host, ":", cfg.Name, "/", cfg.Port, "]",
       "connection attempts have failed" >>

\* The test that follows the retry loop: the loop ran off its end.
LoopExhausted(i, n) == i = n + 1

VARIABLES
    config,     \* []types.MysqlConfig handed to CheckConnections
    tries,      \* TRIES
    dbType,     \* DB_TYPE
    mongoUri,   \* MONGODB_URI: "unset" or "set"
    mainPc,     \* position of main
    launched,   \* goroutines started so far by CheckConnections
    received,   \* values CheckConnections has taken from errChan
    errChan,    \* buffered channel, capacity len(config)
    ret,        \* <<>> until CheckConnections returns, then <<err>>
    retFrom,    \* the goroutine whose value made CheckConnections return (0: none)
    gpc,        \* per goroutine: position
    gi,         \* per goroutine: loop variable i
    gerr,       \* per goroutine: err of the latest CheckConnection call
    fails,      \* per goroutine: CheckConnection calls that returned an error
    sent,       \* per goroutine: <<>> until it sends, then <<value sent>>
    probes,     \* per goroutine: CheckConnection calls made
    sleeps,     \* per goroutine: time.Sleep durations, in order
    mi,         \* loop variable i of the MongoDB loop
    mprobes,    \* MongoDB attempts made
    exitCode,   \* <<>> while the process runs, then <<status>>
    \* ---- metrics.MultiMySQLExporter
    cancelled,           \* e.ctx is cancelled
    muWriter,            \* e.mu: the Start invocation holding Lock (0: none)
    muReaders,           \* e.mu: the Collect calls holding RLock
    availabilityMetric,  \* GaugeVec: labels -> [val, cyc, ok]
    durationMetric,      \* GaugeVec: labels -> [cyc]
    rpc,        \* per Start invocation: position of the thread it drives
    rphase,     \* per Start invocation: "sync" (inside Start) or "loop"
    tick,       \* per Start invocation: ticker.C holds a tick
    rcyc,       \* per Start invocation: number of the cycle it is running
    wpc,        \* per Start invocation and target: position of the probe worker
    wcalls,     \* per Start invocation and target: CheckConnection calls the
                \* worker of the running cycle has made
    stopMid,    \* per Start invocation: Stop() was called while the cycle
                \* it is running had a probe in flight
    cycleSeq,   \* cycles begun so far
    lastDone,   \* the numbers of the completed cycles
    afterStop,  \* per Start invocation: its loop took the tick of the
                \* cycle it is running after Stop() had returned
    cpc,        \* per Collect call: position
    cAfterStart,\* per Collect call: it was made after a Start() had returned
    cSeen,      \* per Collect call: a cycle had completed at its first read
    snapA,      \* per Collect call: what it read from availabilityMetric
    \* ---- the check interval, from CHECK_INTERVAL to the ticker
    envCheckInterval,  \* CHECK_INTERVAL: [kind, val], kind "unset", "number"
                       \* or "garbage"
    ipc,               \* position of main in exporter mode
    checkIntervalArg,  \* <<>>, then <<checkInterval handed to the constructor>>
    checkInterval,     \* <<>>, then <<e.checkInterval>>
    ticker,            \* <<>>, then <<period of the ticker of the loop>>
    \* ---- one caller of mysqlcheck.CheckConnection, step by step
    ppc,        \* position inside CheckConnection / getSQLTables
    pcfg,       \* the config of the call in progress (Nil: none)
    popen,      \* what is open: "db" (sql.DB), "ctx" (timeout context),
                \* "rows" (sql.Rows)
    pdefers,    \* deferred calls of CheckConnection
    qdefers,    \* deferred calls of getSQLTables
    perr,       \* the error on its way to the caller
    pcause,     \* what made the call in progress or the last call fail
    prows,      \* rows the result set still holds
    pcalls,     \* CheckConnection calls made
    pret,       \* <<>>, then <<what the last call returned>>
    \* ---- util.GetAllMysqlConfigsFromEnvs
    envIdx,     \* the environment: envIdx[i + 1] holds MYSQL_*_i
    envBase,    \* the environment: the un-indexed MYSQL_* variables
    lpc,        \* position of the loader
    li,         \* loop variable i of the loader
    configs,    \* the slice the loader is building
    caIdx,      \* calls of mysqlTLSConfig made for index i (at i + 1)
    caBase,     \* calls of mysqlTLSConfig made for the un-indexed variables
    lprobes     \* CheckConnection calls made on loaded configs

oneShotVars == << config, tries, dbType, mongoUri, mainPc, launched, received,
                  errChan, ret, retFrom, gpc, gi, gerr, fails, sent, probes,
                  sleeps, mi, mprobes, exitCode >>

exporterVars == << cancelled, muWriter, muReaders, availabilityMetric,
                   durationMetric, rpc, rphase, tick, rcyc, wpc, cycleSeq,
                   lastDone, afterStop, cpc, cAfterStart, cSeen, snapA,
                   wcalls, stopMid >>

intervalVars == << envCheckInterval, ipc, checkIntervalArg, checkInterval,
                  ticker >>

probeVars == << ppc, pcfg, popen, pdefers, qdefers, perr, pcause, prows,
               pcalls, pret >>

loaderVars == << envIdx, envBase, lpc, li, configs, caIdx, caBase, lprobes >>

vars == << oneShotVars, exporterVars, intervalVars, probeVars, loaderVars >>

\* Everything outside the one-shot run, and everything outside the exporter.
notOneShot == << exporterVars, intervalVars, probeVars, loaderVars >>
notExporter == << oneShotVars, intervalVars, probeVars, loaderVars >>

Runners == 1..MaxStarts
Collectors == 1..MaxCollectors
Empty == << >>

\* NewMultiMySQLExporter: the exporter before Start().
NewMultiMySQLExporter ==
    /\ cancelled = FALSE
    /\ muWriter = 0
    /\ muReaders = {}
    /\ availabilityMetric = Empty
    /\ durationMetric = Empty
    /\ rpc = [s \in Runners |-> "idle"]
    /\ rphase = [s \in Runners |-> "sync"]
    /\ tick = [s \in Runners |-> FALSE]
    /\ rcyc = [s \in Runners |-> 0]
    /\ wpc = [s \in Runners |-> [t \in 1..Len(config) |-> "none"]]
    /\ wcalls = [s \in Runners |-> [t \in 1..Len(config) |-> 0]]
    /\ stopMid = [s \in Runners |-> FALSE]
    /\ cycleSeq = 0
    /\ lastDone = {}
    /\ afterStop = [s \in Runners |-> FALSE]
    /\ cpc = [c \in Collectors |-> "idle"]
    /\ cAfterStart = [c \in Collectors |-> FALSE]
    /\ cSeen = [c \in Collectors |-> FALSE]
    /\ snapA = [c \in Collectors |-> Empty]

\* The check interval's path is not being followed.
NoInterval ==
    /\ envCheckInterval = [kind |-> "unset", val |-> 0]
    /\ ipc = "off"
    /\ checkIntervalArg = <<>>
    /\ checkInterval = <<>>
    /\ ticker = <<>>

\* No CheckConnection call is being followed step by step.
NoProbe ==
    /\ ppc = "idle"
    /\ pcfg = Nil
    /\ popen = {}
    /\ pdefers = <<>>
    /\ qdefers = <<>>
    /\ perr = Nil
    /\ pcause = "none"
    /\ prows = 0
    /\ pcalls = 0
    /\ pret = <<>>

\* The variables of one group MYSQL_NAME.., all unset.
UnsetSlot ==
    [Name |-> "", User |-> "", Pass |-> "", Host |-> "", Port |-> "",
     TLS |-> "", CA |-> "good"]

\* The loader is not being followed.
NoLoader ==
    /\ envIdx = <<>>
    /\ envBase = UnsetSlot
    /\ lpc = "off"
    /\ li = 0
    /\ configs = <<>>
    /\ caIdx = <<>>
    /\ caBase = 0
    /\ lprobes = 0

Targets == 1..Len(config)
Running == exitCode = <<>>

mainVars == << mainPc, launched, received, ret, retFrom, mi, mprobes, exitCode >>
envVars == << config, tries, dbType, mongoUri >>
goVars == << gpc, gi, gerr, fails, sent, probes, sleeps >>

\* ------------------------------------------------------------------ Init
InitOneShot ==
    /\ config \in SeqsUpTo(ConfigPool, MaxTargets)
    /\ tries \in (0 - NegTries)..MaxTries
    /\ dbType \in {"mysql", "mongodb"}
    /\ mongoUri \in IF dbType = "mongodb" THEN {"unset", "set"} ELSE {"unset"}
    /\ mainPc = "start"
    /\ launched = 0
    /\ received = 0
    /\ errChan = <<>>
    /\ ret = <<>>
    /\ retFrom = 0
    /\ gpc = [t \in Targets |-> "unlaunched"]
    /\ gi = [t \in Targets |-> 1]
    /\ gerr = [t \in Targets |-> NoCall]
    /\ fails = [t \in Targets |-> 0]
    /\ sent = [t \in Targets |-> <<>>]
    /\ probes = [t \in Targets |-> 0]
    /\ sleeps = [t \in Targets |-> <<>>]
    /\ mi = 1
    /\ mprobes = 0
    /\ exitCode = <<>>
    /\ NewMultiMySQLExporter
    /\ NoInterval
    /\ NoProbe
    /\ NoLoader

\* ------------------------------------------------------------------ main
\* main, up to the call of CheckConnections in one-shot mode.
MainStart ==
    /\ Running
    /\ mainPc = "start"
    /\ IF mongoUri = "unset" /\ dbType = "mongodb"
         THEN /\ exitCode' = << ExitSetupError >>
              /\ mainPc' = "exited"
         ELSE /\ mainPc' = "launch"
              /\ UNCHANGED exitCode
    /\ UNCHANGED << envVars, launched, received, errChan, ret, retFrom, mi,
                    mprobes, goVars >>

\* The loop body called without `go`: the next target's retry loop starts
\* only when the previous one has ended.
LaunchWithoutGo ==
    /\ Running
    /\ mainPc = "launch"
    /\ launched < Len(config)
    /\ launched > 0 => gpc[launched] = "done"
    /\ launched' = launched + 1
    /\ gpc' = [gpc EXCEPT ![launched + 1] = "loop"]
    /\ UNCHANGED << envVars, mainPc, received, errChan, ret, retFrom, mi,
                    mprobes, gi, gerr, fails, sent, probes, sleeps, exitCode >>

\* CheckConnections: `go func(cfg)` for the next element of config.
Launch ==
    /\ Running
    /\ mainPc = "launch"
    /\ launched < Len(config)
    /\ launched' = launched + 1
    /\ gpc' = [gpc EXCEPT ![launched + 1] = "loop"]
    /\ UNCHANGED << envVars, mainPc, received, errChan, ret, retFrom, mi,
                    mprobes, gi, gerr, fails, sent, probes, sleeps, exitCode >>

\* A receive loop whose test of the received value is inverted.
RecvReturnsInverted(err) == err = Nil

\* What the receive loop does with one value taken from errChan.
RecvReturns(err) == err # Nil

\* A receive loop that iterates once more than there are targets.
MoreToReceiveOffByOne == received <= Len(config)

\* `for range config`: the receive loop has another iteration to run.
MoreToReceive == received < Len(config)

\* CheckConnections: the `for range config` receive loop, one iteration, or
\* the `return nil` after it.
Recv ==
    /\ Running
    /\ mainPc = "launch"
    /\ launched = Len(config)
    /\ IF MoreToReceive
         THEN /\ errChan # <<>>
              /\ errChan' = Tail(errChan)
              /\ IF RecvReturns(Head(errChan).err)
                   THEN /\ ret' = << Head(errChan).err >>
                        /\ retFrom' = Head(errChan).from
                        /\ mainPc' = "returned"
                        /\ UNCHANGED received
                   ELSE /\ received' = received + 1
                        /\ UNCHANGED << ret, retFrom, mainPc >>
         ELSE /\ ret' = << Nil >>
              /\ mainPc' = "returned"
              /\ UNCHANGED << errChan, received, retFrom >>
    /\ UNCHANGED << envVars, launched, mi, mprobes, goVars, exitCode >>

\* The status main exits with when CheckConnections returned an error.
MysqlFailureStatus == ExitSetupError

\* main after CheckConnections has returned.
MainAfterCheck ==
    /\ Running
    /\ mainPc = "returned"
    /\ IF ret[1] # Nil
         THEN /\ exitCode' = << MysqlFailureStatus >>
              /\ mainPc' = "exited"
         ELSE IF dbType = "mongodb"
                THEN /\ mainPc' = "mongo"
                     /\ UNCHANGED exitCode
                ELSE /\ exitCode' = << 0 >>
                     /\ mainPc' = "exited"
    /\ UNCHANGED << envVars, launched, received, errChan, ret, retFrom, mi,
                    mprobes, goVars >>

\* How one iteration of the MongoDB loop can end: "retry" (NewClient or
\* ListCollectionNames failed), "fatal" (client.Connect failed), "ok", and,
\* decided by the URI alone and so in the first iteration, "unparsable"
\* (url.Parse failed) or "nopath" (dbName[0] on an empty path panics).
MongoOutcomes ==
    {"retry", "fatal", "ok"}
        \cup (IF mprobes = 0 THEN {"unparsable", "nopath"} ELSE {})

\* One iteration of the MongoDB loop of main, or the end of the loop.
MongoStep ==
    /\ Running
    /\ mainPc = "mongo"
    /\ IF mi <= tries
         THEN /\ mprobes' = mprobes + 1
              /\ \E o \in MongoOutcomes :
                   CASE o = "retry" ->
                          /\ mi' = mi + 1
                          /\ UNCHANGED << exitCode, mainPc >>
                     [] o \in {"fatal", "unparsable"} ->
                          /\ exitCode' = << ExitSetupError >>
                          /\ mainPc' = "exited"
                          /\ UNCHANGED mi
                     [] o = "nopath" ->
                          /\ exitCode' = << ExitPanic >>
                          /\ mainPc' = "exited"
                          /\ UNCHANGED mi
                     [] o = "ok" ->
                          /\ mainPc' = "mongoDone"
                          /\ UNCHANGED << exitCode, mi >>
         ELSE /\ mainPc' = "mongoDone"
              /\ UNCHANGED << exitCode, mi, mprobes >>
    /\ UNCHANGED << envVars, launched, received, errChan, ret, retFrom, goVars >>

MongoFinish ==
    /\ Running
    /\ mainPc = "mongoDone"
    /\ exitCode' = IF LoopExhausted(mi, tries)
                     THEN << ExitAttemptsExhausted >>
                     ELSE << 0 >>
    /\ mainPc' = "exited"
    /\ UNCHANGED << envVars, launched, received, errChan, ret, retFrom, mi,
                    mprobes, goVars >>

\* ------------------------------------------------- per-target goroutine
\* A loop condition that stops one attempt short.
LoopCondStrict(i) == i < tries

\* The loop condition `i <= tries` at loop variable i: enter the body and call
\* CheckConnection, or leave the loop.
LoopCond(i) == i <= tries

\* The goroutine starts: i = 1 and the first test of the loop condition.
LoopTest(t) ==
    /\ Running
    /\ gpc[t] = "loop"
    /\ IF LoopCond(gi[t])
         THEN /\ gpc' = [gpc EXCEPT ![t] = "probing"]
              /\ probes' = [probes EXCEPT ![t] = @ + 1]
         ELSE /\ gpc' = [gpc EXCEPT ![t] = "send"]
              /\ UNCHANGED probes
    /\ UNCHANGED << envVars, mainVars, errChan, gi, gerr, fails, sent, sleeps >>

\* A loop body whose success branch falls through to the sleep.
RetriesAlways(err) == TRUE

\* Whether the loop body retries after CheckConnection returned err.
Retries(err) == err # Nil

\* CheckConnection returns err: on an error the diagnostic is printed and the
\* goroutine goes to sleep, otherwise it breaks out of the loop.
ProbeReturn(t) ==
    /\ Running
    /\ gpc[t] = "probing"
    /\ \E err \in CheckConnection(config[t]) :
         /\ gerr' = [gerr EXCEPT ![t] = err]
         /\ fails' = [fails EXCEPT ![t] = IF err # Nil THEN @ + 1 ELSE @]
         /\ IF Retries(err)
              THEN /\ gpc' = [gpc EXCEPT ![t] = "sleeping"]
                   /\ sleeps' = [sleeps EXCEPT ![t] = Append(@, sleepS(gi[t]))]
              ELSE /\ gpc' = [gpc EXCEPT ![t] = "send"]
                   /\ UNCHANGED sleeps
    /\ UNCHANGED << envVars, mainVars, errChan, gi, sent, probes >>

\* time.Sleep returns; `continue` runs the post statement i += 1 and the loop
\* condition is tested again.
SleepDone(t) ==
    /\ Running
    /\ gpc[t] = "sleeping"
    /\ gi' = [gi EXCEPT ![t] = @ + 1]
    /\ IF LoopCond(gi[t] + 1)
         THEN /\ gpc' = [gpc EXCEPT ![t] = "probing"]
              /\ probes' = [probes EXCEPT ![t] = @ + 1]
         ELSE /\ gpc' = [gpc EXCEPT ![t] = "send"]
              /\ UNCHANGED probes
    /\ UNCHANGED << envVars, mainVars, errChan, gerr, fails, sent, sleeps >>

\* The value the goroutine sends on errChan.
Outcome(t) ==
    IF LoopExhausted(gi[t], tries) THEN ExhaustedError(config[t]) ELSE Nil

\* A result channel with room for one value fewer than there are targets.
ErrChanCapShort == Len(config) - 1

\* make(chan error, len(config)): the capacity of errChan.
ErrChanCap == Len(config)

\* errChan <- ...; the goroutine ends.
Send(t) ==
    /\ Running
    /\ gpc[t] = "send"
    /\ Len(errChan) < ErrChanCap
    /\ errChan' = Append(errChan, [from |-> t, err |-> Outcome(t)])
    /\ sent' = [sent EXCEPT ![t] = << Outcome(t) >>]
    /\ gpc' = [gpc EXCEPT ![t] = "done"]
    /\ UNCHANGED << envVars, mainVars, gi, gerr, fails, probes, sleeps >>

NextOneShot ==
    \/ MainStart /\ UNCHANGED notOneShot
    \/ Launch /\ UNCHANGED notOneShot
    \/ Recv /\ UNCHANGED notOneShot
    \/ MainAfterCheck /\ UNCHANGED notOneShot
    \/ MongoStep /\ UNCHANGED notOneShot
    \/ MongoFinish /\ UNCHANGED notOneShot
    \/ \E t \in Targets : LoopTest(t) /\ UNCHANGED notOneShot
    \/ \E t \in Targets : ProbeReturn(t) /\ UNCHANGED notOneShot
    \/ \E t \in Targets : SleepDone(t) /\ UNCHANGED notOneShot
    \/ \E t \in Targets : Send(t) /\ UNCHANGED notOneShot

SpecOneShot == InitOneShot /\ [][NextOneShot]_vars

\* ------------------------------------------------------------ exporter
InitExporter ==
    /\ config \in SeqsUpTo(ConfigPool, MaxTargets)
    /\ tries = 1
    /\ dbType = "mysql"
    /\ mongoUri = "unset"
    /\ mainPc = "exporter"
    /\ launched = 0
    /\ received = 0
    /\ errChan = <<>>
    /\ ret = <<>>
    /\ retFrom = 0
    /\ gpc = [t \in Targets |-> "unlaunched"]
    /\ gi = [t \in Targets |-> 1]
    /\ gerr = [t \in Targets |-> NoCall]
    /\ fails = [t \in Targets |-> 0]
    /\ sent = [t \in Targets |-> <<>>]
    /\ probes = [t \in Targets |-> 0]
    /\ sleeps = [t \in Targets |-> <<>>]
    /\ mi = 1
    /\ mprobes = 0
    /\ exitCode = <<>>
    /\ NewMultiMySQLExporter
    /\ NoInterval
    /\ NoProbe
    /\ NoLoader

\* prometheus.Labels{"host", "port", "database"} of a target.
Labels(cfg) == << cfg.Host, cfg.Port, cfg.Name >>

\* GaugeVec.With(labels).Set(v): one child per label set.
WithSet(vec, labels, v) ==
    [l \in DOMAIN vec \cup {labels} |-> IF l = labels THEN v ELSE vec[l]]

\* A gauge set to 1 on failure and 0 on success.
AvailabilityInverted(err) == IF err # Nil THEN 1 ELSE 0

\* The gauge value performChecks sets for a probe that returned err.
Availability(err) == IF err # Nil THEN 0 ELSE 1

\* A Lock that does not wait for the readers to leave.
CanLockDespiteReaders == muWriter = 0

\* A Lock that does not wait for another holder of the write lock.
CanLockDespiteWriter == muReaders = {}

\* e.mu.Lock() can be taken.
CanLock == muWriter = 0 /\ muReaders = {}

\* An RLock that does not wait for the writer to leave.
CanRLockDespiteWriter == TRUE

\* e.mu.RLock() can be taken: no writer holds e.mu and none is waiting in
\* Lock() (sync.RWMutex blocks new readers while a Lock call is pending).
CanRLock == muWriter = 0 /\ \A s \in Runners : rpc[s] # "lock"

\* A cycle that does not wait for its workers.
WaitDoneWithoutWaiting(s) == TRUE

\* A wait that a cancelled context cuts short.
WaitDoneOrCancelled(s) == cancelled \/ \A t \in Targets : wpc[s][t] = "done"

\* wg.Wait() of the cycle run by s can return.
WaitDone(s) == \A t \in Targets : wpc[s][t] = "done"

clientVars == << cpc, cAfterStart, cSeen, snapA >>

\* Start() is called: it calls performChecks.
Start(s) ==
    /\ rpc[s] = "idle"
    /\ \A r \in Runners : r < s => rpc[r] # "idle"
    /\ cycleSeq < MaxCycles
    /\ rpc' = [rpc EXCEPT ![s] = "lock"]
    /\ cycleSeq' = cycleSeq + 1
    /\ rcyc' = [rcyc EXCEPT ![s] = cycleSeq + 1]
    /\ UNCHANGED << cancelled, muWriter, muReaders, availabilityMetric,
                    durationMetric, rphase, tick, wpc, lastDone, afterStop,
                    clientVars, wcalls, stopMid >>

\* The cycle run by s has a CheckConnection call in flight.
ProbeInFlight(s) == \E t \in Targets : wpc[s][t] = "probing"

\* A Stop() that hands its signal to the loop over an unbuffered channel.
StopBySend ==
    /\ \E s \in Runners : rphase[s] = "loop" /\ rpc[s] = "select"
    /\ cancelled' = TRUE
    /\ stopMid' = [s \in Runners |-> stopMid[s] \/ ProbeInFlight(s)]
    /\ UNCHANGED << muWriter, muReaders, availabilityMetric, durationMetric,
                    rpc, rphase, tick, rcyc, wpc, cycleSeq, lastDone,
                    afterStop, clientVars, wcalls >>

\* Stop(): e.cancel().
Stop ==
    /\ cancelled' = TRUE
    /\ stopMid' = [s \in Runners |-> stopMid[s] \/ ProbeInFlight(s)]
    /\ UNCHANGED << muWriter, muReaders, availabilityMetric, durationMetric,
                    rpc, rphase, tick, rcyc, wpc, cycleSeq, lastDone,
                    afterStop, clientVars, wcalls >>

\* A cycle that keeps the entries of the cycle before it.
ResetKeeps(vec) == vec

\* GaugeVec.Reset(): every child of the vector is deleted.
Reset(vec) == Empty

\* performChecks: Lock, both Reset calls and the launch of one worker per
\* target.
PerformLock(s) ==
    /\ rpc[s] = "lock"
    /\ CanLock
    /\ muWriter' = s
    /\ availabilityMetric' = Reset(availabilityMetric)
    /\ durationMetric' = Reset(durationMetric)
    /\ wpc' = [wpc EXCEPT ![s] = [t \in Targets |-> "probing"]]
    /\ rpc' = [rpc EXCEPT ![s] = "checking"]
    /\ UNCHANGED << cancelled, muReaders, rphase, tick, rcyc, cycleSeq,
                    lastDone, afterStop, clientVars, wcalls, stopMid >>

\* A worker that calls CheckConnection again after a failure.
AfterProbeRetry(err) == IF err # Nil THEN "probing" ELSE "setDuration"

\* Where a worker goes once CheckConnection has returned err and the
\* availability gauge is set.
AfterProbe(err) == "setDuration"

\* A worker that takes e.mu before it publishes its result.
WorkerProbeLocking(s, t) ==
    /\ wpc[s][t] = "probing"
    /\ CanLock
    /\ \E err \in CheckConnection(config[t]) :
         /\ availabilityMetric' =
                WithSet(availabilityMetric, Labels(config[t]),
                        [val |-> Availability(err), cyc |-> rcyc[s],
                         ok |-> (err = Nil)])
         /\ wpc' = [wpc EXCEPT ![s][t] = AfterProbe(err)]
    /\ wcalls' = [wcalls EXCEPT ![s][t] = @ + 1]
    /\ UNCHANGED << cancelled, muWriter, muReaders, durationMetric, rpc,
                    rphase, tick, rcyc, cycleSeq, lastDone, afterStop,
                    clientVars, stopMid >>

\* A worker: CheckConnection returns and the availability gauge is set.
WorkerProbe(s, t) ==
    /\ wpc[s][t] = "probing"
    /\ \E err \in CheckConnection(config[t]) :
         /\ availabilityMetric' =
                WithSet(availabilityMetric, Labels(config[t]),
                        [val |-> Availability(err), cyc |-> rcyc[s],
                         ok |-> (err = Nil)])
         /\ wpc' = [wpc EXCEPT ![s][t] = AfterProbe(err)]
    /\ wcalls' = [wcalls EXCEPT ![s][t] = @ + 1]
    /\ UNCHANGED << cancelled, muWriter, muReaders, durationMetric, rpc,
                    rphase, tick, rcyc, cycleSeq, lastDone, afterStop,
                    clientVars, stopMid >>

\* A worker: the duration gauge is set and wg.Done() runs.
WorkerSetDuration(s, t) ==
    /\ wpc[s][t] = "setDuration"
    /\ durationMetric' =
           WithSet(durationMetric, Labels(config[t]), [cyc |-> rcyc[s]])
    /\ wpc' = [wpc EXCEPT ![s][t] = "done"]
    /\ UNCHANGED << cancelled, muWriter, muReaders, availabilityMetric, rpc,
                    rphase, tick, rcyc, cycleSeq, lastDone, afterStop,
                    clientVars, wcalls, stopMid >>

\* performChecks: wg.Wait() returns and the deferred Unlock runs. Inside
\* Start() the goroutine with the ticker is started and Start() returns.
PerformUnlock(s) ==
    /\ rpc[s] = "checking"
    /\ WaitDone(s)
    /\ muWriter' = IF muWriter = s THEN 0 ELSE muWriter
    /\ lastDone' = lastDone \cup {rcyc[s]}
    /\ rpc' = [rpc EXCEPT ![s] = "select"]
    /\ rphase' = [rphase EXCEPT ![s] = "loop"]
    /\ rcyc' = [rcyc EXCEPT ![s] = 0]
    /\ wpc' = [wpc EXCEPT ![s] = [t \in Targets |-> "none"]]
    /\ afterStop' = [afterStop EXCEPT ![s] = FALSE]
    /\ wcalls' = [wcalls EXCEPT ![s] = [t \in Targets |-> 0]]
    /\ stopMid' = [stopMid EXCEPT ![s] = FALSE]
    /\ UNCHANGED << cancelled, muReaders, availabilityMetric, durationMetric,
                    tick, cycleSeq, clientVars >>

\* The ticker of a running loop fires; ticker.C holds at most one tick.
Tick(s) ==
    /\ rphase[s] = "loop"
    /\ rpc[s] # "exited"
    /\ ~tick[s]
    /\ tick' = [tick EXCEPT ![s] = TRUE]
    /\ UNCHANGED << cancelled, muWriter, muReaders, availabilityMetric,
                    durationMetric, rpc, rphase, rcyc, wpc, cycleSeq,
                    lastDone, afterStop, clientVars, wcalls, stopMid >>

\* select: the case <-ticker.C is ready and is chosen.
SelectTick(s) ==
    /\ rphase[s] = "loop"
    /\ rpc[s] = "select"
    /\ tick[s]
    /\ cycleSeq < MaxCycles
    /\ tick' = [tick EXCEPT ![s] = FALSE]
    /\ rpc' = [rpc EXCEPT ![s] = "lock"]
    /\ cycleSeq' = cycleSeq + 1
    /\ rcyc' = [rcyc EXCEPT ![s] = cycleSeq + 1]
    /\ afterStop' = [afterStop EXCEPT ![s] = cancelled]
    /\ UNCHANGED << cancelled, muWriter, muReaders, availabilityMetric,
                    durationMetric, rphase, wpc, lastDone, clientVars,
                    wcalls, stopMid >>

\* A loop whose select has no case for e.ctx.Done().
SelectDoneNoCase(s) ==
    /\ FALSE
    /\ UNCHANGED exporterVars

\* select: the case <-e.ctx.Done() is ready and is chosen; the deferred
\* ticker.Stop() runs and nothing reads ticker.C any more.
SelectDone(s) ==
    /\ rphase[s] = "loop"
    /\ rpc[s] = "select"
    /\ cancelled
    /\ rpc' = [rpc EXCEPT ![s] = "exited"]
    /\ tick' = [tick EXCEPT ![s] = FALSE]
    /\ UNCHANGED << cancelled, muWriter, muReaders, availabilityMetric,
                    durationMetric, rphase, rcyc, wpc, cycleSeq,
                    lastDone, afterStop, clientVars, wcalls, stopMid >>

runVars == << cancelled, muWriter, availabilityMetric, durationMetric, rpc,
             rphase, tick, rcyc, wpc, cycleSeq, lastDone, afterStop,
             wcalls, stopMid >>

\* Collect is called and e.mu.RLock() is taken.
CollectRLock(c) ==
    /\ cpc[c] = "idle"
    /\ \A d \in Collectors : d < c => cpc[d] # "idle"
    /\ CanRLock
    /\ muReaders' = muReaders \cup {c}
    /\ cpc' = [cpc EXCEPT ![c] = "readAvailability"]
    /\ cAfterStart' = [cAfterStart EXCEPT ![c] = \E s \in Runners : rphase[s] = "loop"]
    /\ UNCHANGED << runVars, cSeen, snapA >>

\* Collect: e.availabilityMetric.Collect(ch).
CollectAvailability(c) ==
    /\ cpc[c] = "readAvailability"
    /\ snapA' = [snapA EXCEPT ![c] = availabilityMetric]
    /\ cSeen' = [cSeen EXCEPT ![c] = (lastDone # {})]
    /\ cpc' = [cpc EXCEPT ![c] = "readDuration"]
    /\ UNCHANGED << runVars, muReaders, cAfterStart >>

\* Collect: e.durationMetric.Collect(ch), the deferred RUnlock, and return.
CollectDuration(c) ==
    /\ cpc[c] = "readDuration"
    /\ muReaders' = muReaders \ {c}
    /\ cpc' = [cpc EXCEPT ![c] = "idle"]
    /\ cAfterStart' = [cAfterStart EXCEPT ![c] = FALSE]
    /\ cSeen' = [cSeen EXCEPT ![c] = FALSE]
    /\ snapA' = [snapA EXCEPT ![c] = Empty]
    /\ UNCHANGED runVars

NextExporter ==
    \/ \E s \in Runners : Start(s) /\ UNCHANGED notExporter
    \/ Stop /\ UNCHANGED notExporter
    \/ \E s \in Runners : PerformLock(s) /\ UNCHANGED notExporter
    \/ \E s \in Runners, t \in Targets : WorkerProbe(s, t) /\ UNCHANGED notExporter
    \/ \E s \in Runners, t \in Targets : WorkerSetDuration(s, t) /\ UNCHANGED notExporter
    \/ \E s \in Runners : PerformUnlock(s) /\ UNCHANGED notExporter
    \/ \E s \in Runners : Tick(s) /\ UNCHANGED notExporter
    \/ \E s \in Runners : SelectTick(s) /\ UNCHANGED notExporter
    \/ \E s \in Runners : SelectDone(s) /\ UNCHANGED notExporter
    \/ \E c \in Collectors : CollectRLock(c) /\ UNCHANGED notExporter
    \/ \E c \in Collectors : CollectAvailability(c) /\ UNCHANGED notExporter
    \/ \E c \in Collectors : CollectDuration(c) /\ UNCHANGED notExporter

SpecExporter == InitExporter /\ [][NextExporter]_vars

\* Start() is called on an exporter whose Stop() has already been called.
StartAfterStop(s) ==
    /\ cancelled
    /\ Start(s)

\* The exporter under a client that calls Start() only after Stop().
NextRestart ==
    \/ \E s \in Runners : StartAfterStop(s) /\ UNCHANGED notExporter
    \/ Stop /\ UNCHANGED notExporter
    \/ \E s \in Runners : PerformLock(s) /\ UNCHANGED notExporter
    \/ \E s \in Runners, t \in Targets : WorkerProbe(s, t) /\ UNCHANGED notExporter
    \/ \E s \in Runners, t \in Targets : WorkerSetDuration(s, t) /\ UNCHANGED notExporter
    \/ \E s \in Runners : PerformUnlock(s) /\ UNCHANGED notExporter
    \/ \E s \in Runners : Tick(s) /\ UNCHANGED notExporter
    \/ \E s \in Runners : SelectTick(s) /\ UNCHANGED notExporter
    \/ \E s \in Runners : SelectDone(s) /\ UNCHANGED notExporter
    \/ \E c \in Collectors : CollectRLock(c) /\ UNCHANGED notExporter
    \/ \E c \in Collectors : CollectAvailability(c) /\ UNCHANGED notExporter
    \/ \E c \in Collectors : CollectDuration(c) /\ UNCHANGED notExporter

SpecRestart == InitExporter /\ [][NextRestart]_vars

\* select: the case <-ticker.C is chosen for a cycle beyond the MaxCycles
\* numbered ones; such cycles share the number MaxCycles.
SelectTickAgain(s) ==
    /\ rphase[s] = "loop"
    /\ rpc[s] = "select"
    /\ tick[s]
    /\ cycleSeq = MaxCycles
    /\ tick' = [tick EXCEPT ![s] = FALSE]
    /\ rpc' = [rpc EXCEPT ![s] = "lock"]
    /\ rcyc' = [rcyc EXCEPT ![s] = MaxCycles]
    /\ afterStop' = [afterStop EXCEPT ![s] = cancelled]
    /\ UNCHANGED << cancelled, muWriter, muReaders, availabilityMetric,
                    durationMetric, rphase, wpc, lastDone, clientVars,
                    wcalls, stopMid, cycleSeq >>

\* A step of the cycle a Start invocation is running, once it holds e.mu.
CycleStep(s) ==
    /\ \/ \E t \in Targets : WorkerProbe(s, t)
       \/ \E t \in Targets : WorkerSetDuration(s, t)
       \/ PerformUnlock(s)
    /\ UNCHANGED notExporter

\* The only Start invocation of an exporter that is started once.
FirstStart == CHOOSE s \in Runners : \A r \in Runners : s <= r

\* The exporter started once, with a loop that can tick for ever.
NextExporterLive ==
    \/ Start(FirstStart) /\ UNCHANGED notExporter
    \/ Stop /\ UNCHANGED notExporter
    \/ \E s \in Runners : PerformLock(s) /\ UNCHANGED notExporter
    \/ \E s \in Runners : CycleStep(s)
    \/ \E s \in Runners : Tick(s) /\ UNCHANGED notExporter
    \/ \E s \in Runners : SelectTick(s) /\ UNCHANGED notExporter
    \/ \E s \in Runners : SelectTickAgain(s) /\ UNCHANGED notExporter
    \/ \E s \in Runners : SelectDone(s) /\ UNCHANGED notExporter
    \/ \E c \in Collectors : CollectRLock(c) /\ UNCHANGED notExporter
    \/ \E c \in Collectors : CollectAvailability(c) /\ UNCHANGED notExporter
    \/ \E c \in Collectors : CollectDuration(c) /\ UNCHANGED notExporter

\* Scheduling: a goroutine that can run does run, every CheckConnection call
\* returns, a Collect that holds RLock finishes, a Lock that can be taken
\* again and again is taken, and a select whose ctx.Done case is ready
\* again and again chooses it (select picks among its ready cases at random).
FairExporter ==
    /\ WF_vars(CycleStep(FirstStart))
    /\ SF_vars(PerformLock(FirstStart) /\ UNCHANGED notExporter)
    /\ SF_vars(SelectDone(FirstStart) /\ UNCHANGED notExporter)
    /\ \A c \in Collectors :
          /\ WF_vars(CollectAvailability(c) /\ UNCHANGED notExporter)
          /\ WF_vars(CollectDuration(c) /\ UNCHANGED notExporter)

SpecExporterLive == InitExporter /\ [][NextExporterLive]_vars /\ FairExporter

\* Scheduling of the scrapes: every Collector is a Collect call that is made
\* again as soon as the previous one has returned, and a call waiting in
\* RLock() gets the lock if it can be taken again and again (the Unlock of
\* sync.RWMutex wakes the readers that wait before a later Lock can succeed).
FairCollect ==
    \A c \in Collectors : SF_vars(CollectRLock(c) /\ UNCHANGED notExporter)

\* The exporter started once, under scrapes that never stop coming.
SpecExporterScraped ==
    InitExporter /\ [][NextExporterLive]_vars /\ FairExporter /\ FairCollect

\* ------------------------------------------- exporter: check interval
\* main in exporter mode with an empty target list: CHECK_INTERVAL is read,
\* the exporter is constructed, and Start() creates the ticker of its loop
\* (the cycles themselves are the subject of SpecExporter).
InitInterval ==
    /\ config = <<>>
    /\ tries = 1
    /\ dbType = "mysql"
    /\ mongoUri = "unset"
    /\ mainPc = "exporter"
    /\ launched = 0
    /\ received = 0
    /\ errChan = <<>>
    /\ ret = <<>>
    /\ retFrom = 0
    /\ gpc = [t \in Targets |-> "unlaunched"]
    /\ gi = [t \in Targets |-> 1]
    /\ gerr = [t \in Targets |-> NoCall]
    /\ fails = [t \in Targets |-> 0]
    /\ sent = [t \in Targets |-> <<>>]
    /\ probes = [t \in Targets |-> 0]
    /\ sleeps = [t \in Targets |-> <<>>]
    /\ mi = 1
    /\ mprobes = 0
    /\ exitCode = <<>>
    /\ NewMultiMySQLExporter
    /\ envCheckInterval \in
          {[kind |-> "unset", val |-> 0], [kind |-> "garbage", val |-> 0]}
            \cup {[kind |-> "number", val |-> n] :
                      n \in (0 - MaxInterval)..MaxInterval}
    /\ ipc = "env"
    /\ checkIntervalArg = <<>>
    /\ checkInterval = <<>>
    /\ ticker = <<>>
    /\ NoProbe
    /\ NoLoader

intervalFrame == << envVars, mainPc, launched, received, errChan, ret,
                   retFrom, mi, mprobes, goVars, exporterVars, probeVars,
                   loaderVars >>

\* util.GetEnvNumber("CHECK_INTERVAL", 30) and the conversion to a duration.
ReadCheckInterval ==
    /\ Running
    /\ ipc = "env"
    /\ CASE envCheckInterval.kind = "unset" ->
              /\ checkIntervalArg' = << EnvDefaultCheckInterval >>
              /\ ipc' = "read"
              /\ UNCHANGED exitCode
         [] envCheckInterval.kind = "number" ->
              /\ checkIntervalArg' = << envCheckInterval.val >>
              /\ ipc' = "read"
              /\ UNCHANGED exitCode
         [] envCheckInterval.kind = "garbage" ->
              /\ exitCode' = << ExitSetupError >>
              /\ ipc' = "exited"
              /\ UNCHANGED checkIntervalArg
    /\ UNCHANGED << intervalFrame, envCheckInterval, checkInterval, ticker >>

\* A constructor that keeps whatever interval it is given.
DefaultedIntervalIdentity(d) == d

\* NewMultiMySQLExporter: the interval stored for an argument d.
DefaultedInterval(d) == IF d = 0 THEN DefaultCheckInterval ELSE d

\* metrics.NewMultiMySQLExporter(mysqlConfigs, checkInterval).
NewExporter ==
    /\ Running
    /\ ipc = "read"
    /\ checkInterval' = << DefaultedInterval(checkIntervalArg[1]) >>
    /\ ipc' = "constructed"
    /\ UNCHANGED << intervalFrame, envCheckInterval, checkIntervalArg, ticker,
                    exitCode >>

\* Start(): after the first cycle the goroutine of the loop calls
\* time.NewTicker(e.checkInterval), which panics unless the period is
\* positive.
StartTicker ==
    /\ Running
    /\ ipc = "constructed"
    /\ IF checkInterval[1] > 0
         THEN /\ ticker' = checkInterval
              /\ ipc' = "ticking"
              /\ UNCHANGED exitCode
         ELSE /\ exitCode' = << ExitPanic >>
              /\ ipc' = "exited"
              /\ UNCHANGED ticker
    /\ UNCHANGED << intervalFrame, envCheckInterval, checkIntervalArg,
                    checkInterval >>

NextInterval ==
    \/ ReadCheckInterval
    \/ NewExporter
    \/ StartTicker

SpecInterval == InitInterval /\ [][NextInterval]_vars

\* ------------------------------------------------- CheckConnection
\* One caller that calls CheckConnection up to MaxProbes times, each call
\* followed through its steps.
InitProbe ==
    /\ config = <<>>
    /\ tries = 1
    /\ dbType = "mysql"
    /\ mongoUri = "unset"
    /\ mainPc = "exporter"
    /\ launched = 0
    /\ received = 0
    /\ errChan = <<>>
    /\ ret = <<>>
    /\ retFrom = 0
    /\ gpc = [t \in Targets |-> "unlaunched"]
    /\ gi = [t \in Targets |-> 1]
    /\ gerr = [t \in Targets |-> NoCall]
    /\ fails = [t \in Targets |-> 0]
    /\ sent = [t \in Targets |-> <<>>]
    /\ probes = [t \in Targets |-> 0]
    /\ sleeps = [t \in Targets |-> <<>>]
    /\ mi = 1
    /\ mprobes = 0
    /\ exitCode = <<>>
    /\ NewMultiMySQLExporter
    /\ NoInterval
    /\ NoProbe
    /\ NoLoader

probeFrame == << oneShotVars, exporterVars, intervalVars, loaderVars >>

Range(q) == { q[j] : j \in 1..Len(q) }

\* A CheckConnection that never defers db.Close().
DeferAfterOpenNone == <<>>

\* What CheckConnection defers once sql.Open has succeeded: db.Close().
DeferAfterOpen == << "db" >>

\* CheckConnection is called with one of the configs.
ProbeCall ==
    /\ ppc = "idle"
    /\ pcalls < MaxProbes
    /\ \E cfg \in ConfigPool :
         /\ pcfg' = cfg
         /\ ppc' = IF cfg.TLS THEN "register" ELSE "open"
    /\ pcalls' = pcalls + 1
    /\ perr' = Nil
    /\ pcause' = "none"
    /\ UNCHANGED << probeFrame, popen, pdefers, qdefers, prows, pret >>

\* mysql.RegisterTLSConfig returns.
ProbeRegisterTLS ==
    /\ ppc = "register"
    /\ \E ok \in BOOLEAN :
         IF ok
           THEN /\ ppc' = "open"
                /\ UNCHANGED << perr, pcause >>
           ELSE /\ ppc' = "return"
                /\ perr' = ErrRegisterTLS
                /\ pcause' = "register"
    /\ UNCHANGED << probeFrame, pcfg, popen, pdefers, qdefers, prows, pcalls,
                    pret >>

\* sql.Open returns; on success db.Close() is deferred.
ProbeOpen ==
    /\ ppc = "open"
    /\ \E ok \in BOOLEAN :
         IF ok
           THEN /\ ppc' = "query"
                /\ popen' = popen \cup {"db"}
                /\ pdefers' = pdefers \o DeferAfterOpen
                /\ UNCHANGED << perr, pcause >>
           ELSE /\ ppc' = "return"
                /\ perr' = ErrConnect
                /\ pcause' = "open"
                /\ UNCHANGED << popen, pdefers >>
    /\ UNCHANGED << probeFrame, pcfg, qdefers, prows, pcalls, pret >>

\* getSQLTables up to the return of db.QueryContext: the timeout context is
\* created and its cancel deferred; on success tableRows.Close() is deferred.
ProbeQuery ==
    /\ ppc = "query"
    /\ \E o \in {"ok", "query", "deadline"} :
         IF o = "ok"
           THEN /\ \E n \in 0..MaxRows : prows' = n
                /\ popen' = popen \cup {"ctx", "rows"}
                /\ qdefers' = << "ctx", "rows" >>
                /\ ppc' = "scan"
                /\ UNCHANGED << perr, pcause >>
           ELSE /\ popen' = popen \cup {"ctx"}
                /\ qdefers' = << "ctx" >>
                /\ ppc' = "tablesReturn"
                /\ perr' = ErrGetTables
                /\ pcause' = o
                /\ UNCHANGED prows
    /\ UNCHANGED << probeFrame, pcfg, pdefers, pcalls, pret >>

\* getSQLTables: one test of tableRows.Next() and, if there is a row, its
\* Scan. Next() is also false when the iteration failed (the deadline
\* passed); tableRows.Err() is not looked at.
ProbeScan ==
    /\ ppc = "scan"
    /\ IF prows = 0
         THEN /\ ppc' = "tablesReturn"
              /\ UNCHANGED << perr, pcause, prows >>
         ELSE \E o \in {"row", "scan", "nextFalse"} :
                CASE o = "row" ->
                       /\ prows' = prows - 1
                       /\ UNCHANGED << ppc, perr, pcause >>
                  [] o = "scan" ->
                       /\ ppc' = "tablesReturn"
                       /\ perr' = ErrGetTables
                       /\ pcause' = "scan"
                       /\ UNCHANGED prows
                  [] o = "nextFalse" ->
                       /\ ppc' = "tablesReturn"
                       /\ pcause' = "deadline in Next"
                       /\ UNCHANGED << perr, prows >>
    /\ UNCHANGED << probeFrame, pcfg, popen, pdefers, qdefers, pcalls, pret >>

\* getSQLTables returns: its deferred calls run.
ProbeTablesReturn ==
    /\ ppc = "tablesReturn"
    /\ popen' = popen \ Range(qdefers)
    /\ qdefers' = <<>>
    /\ prows' = 0
    /\ ppc' = "return"
    /\ UNCHANGED << probeFrame, pcfg, pdefers, perr, pcause, pcalls, pret >>

\* CheckConnection returns: its deferred calls run.
CheckConnectionReturn ==
    /\ ppc = "return"
    /\ popen' = popen \ Range(pdefers)
    /\ pdefers' = <<>>
    /\ pret' = << perr >>
    /\ pcfg' = Nil
    /\ ppc' = "idle"
    /\ UNCHANGED << probeFrame, qdefers, perr, pcause, prows, pcalls >>

NextProbe ==
    \/ ProbeCall
    \/ ProbeRegisterTLS
    \/ ProbeOpen
    \/ ProbeQuery
    \/ ProbeScan
    \/ ProbeTablesReturn
    \/ CheckConnectionReturn

SpecProbe == InitProbe /\ [][NextProbe]_vars

\* ------------------------------------- util.GetAllMysqlConfigsFromEnvs
DefaultPort == "3306"

\* What the environment can hold for one group of MYSQL_* variables.
SlotPool ==
    { [Name |-> "db1", User |-> "root", Pass |-> "pw", Host |-> "h1",
       Port |-> "3307", TLS |-> "", CA |-> "good"],
      [Name |-> "db2", User |-> "root", Pass |-> "pw", Host |-> "h2",
       Port |-> "", TLS |-> "true", CA |-> "good"],
      [Name |-> "db2", User |-> "root", Pass |-> "pw", Host |-> "h2",
       Port |-> "3307", TLS |-> "true", CA |-> "unreadable"],
      [Name |-> "db3", User |-> "root", Pass |-> "pw", Host |-> "h3",
       Port |-> "3307", TLS |-> "1", CA |-> "badpem"],
      [Name |-> "db1", User |-> "root", Pass |-> "pw", Host |-> "",
       Port |-> "3307", TLS |-> "", CA |-> "good"],
      [Name |-> "", User |-> "root", Pass |-> "pw", Host |-> "h1",
       Port |-> "3307", TLS |-> "true", CA |-> "good"],
      [Name |-> "db1", User |-> "", Pass |-> "pw", Host |-> "h1",
       Port |-> "3307", TLS |-> "true", CA |-> "badpem"],
      UnsetSlot }

Indexes == 0..MaxIndex

\* The MYSQL_*_i variables; beyond the indexes the environment sets, none.
EnvAt(i) == IF i \in Indexes THEN envIdx[i + 1] ELSE UnsetSlot

\* main in its first lines: the environment is given and
\* GetAllMysqlConfigsFromEnvs is about to run.
InitLoader ==
    /\ config = <<>>
    /\ tries = 1
    /\ dbType = "mysql"
    /\ mongoUri = "unset"
    /\ mainPc = "exporter"
    /\ launched = 0
    /\ received = 0
    /\ errChan = <<>>
    /\ ret = <<>>
    /\ retFrom = 0
    /\ gpc = [t \in Targets |-> "unlaunched"]
    /\ gi = [t \in Targets |-> 1]
    /\ gerr = [t \in Targets |-> NoCall]
    /\ fails = [t \in Targets |-> 0]
    /\ sent = [t \in Targets |-> <<>>]
    /\ probes = [t \in Targets |-> 0]
    /\ sleeps = [t \in Targets |-> <<>>]
    /\ mi = 1
    /\ mprobes = 0
    /\ exitCode = <<>>
    /\ NewMultiMySQLExporter
    /\ NoInterval
    /\ NoProbe
    /\ envIdx \in [1..(MaxIndex + 1) -> SlotPool]
    /\ envBase \in SlotPool
    /\ lpc = "index"
    /\ li = 0
    /\ configs = <<>>
    /\ caIdx = [j \in 1..(MaxIndex + 2) |-> 0]
    /\ caBase = 0
    /\ lprobes = 0

loaderFrame == << envVars, mainPc, launched, received, errChan, ret, retFrom,
                 mi, mprobes, goVars, exporterVars, intervalVars, probeVars >>

\* util.GetEnvString
GetEnvString(value, defaultValue) ==
    IF value = "" THEN defaultValue ELSE value

\* A GetEnvBool that takes every non-empty value for true.
GetEnvBoolLoose(value, defaultValue) ==
    IF value = "" THEN defaultValue ELSE TRUE

\* util.GetEnvBool
GetEnvBool(value, defaultValue) ==
    IF value = "" THEN defaultValue ELSE value = "true"

\* The fields getMysqlConfigFromEnvs(ByIndex) reads from one group of
\* variables, before the TLS material is loaded.
FromEnv(slot) ==
    [Name |-> GetEnvString(slot.Name, ""),
     User |-> GetEnvString(slot.User, ""),
     Pass |-> GetEnvString(slot.Pass, ""),
     Host |-> GetEnvString(slot.Host, ""),
     Port |-> GetEnvString(slot.Port, DefaultPort),
     TLS |-> GetEnvBool(slot.TLS, FALSE),
     TLSConfig |-> Nil]

\* mysqlTLSConfig returns a *tls.Config for this CA file (otherwise it ends
\* the process).
CAUsable(slot) == slot.CA = "good"

\* A completeness test that forgets the host.
CompleteButHost(cfg) ==
    cfg.Name # "" /\ cfg.User # "" /\ cfg.Pass # "" /\ cfg.Port # ""

\* The test both loaders' callers apply: all five fields are non-empty.
Complete(cfg) ==
    cfg.Name # "" /\ cfg.User # "" /\ cfg.Pass # "" /\ cfg.Host # ""
        /\ cfg.Port # ""

\* One iteration of the loop of GetAllMysqlConfigsFromEnvs:
\* getMysqlConfigFromEnvsByIndex(i), then append or break.
LoadIndexed ==
    /\ Running
    /\ lpc = "index"
    /\ LET slot == EnvAt(li)
           cfg == FromEnv(slot)
       IN  IF cfg.TLS /\ ~CAUsable(slot)
             THEN /\ caIdx' = [caIdx EXCEPT ![li + 1] = @ + 1]
                  /\ exitCode' = << ExitSetupError >>
                  /\ lpc' = "exited"
                  /\ UNCHANGED << li, configs >>
             ELSE /\ caIdx' = IF cfg.TLS
                                THEN [caIdx EXCEPT ![li + 1] = @ + 1]
                                ELSE caIdx
                  /\ UNCHANGED exitCode
                  /\ IF Complete(cfg)
                       THEN /\ configs' =
                                 Append(configs,
                                        IF cfg.TLS
                                          THEN [cfg EXCEPT !.TLSConfig = "tlsconf"]
                                          ELSE cfg)
                            /\ li' = li + 1
                            /\ UNCHANGED lpc
                       ELSE /\ lpc' = "base"
                            /\ UNCHANGED << li, configs >>
    /\ UNCHANGED << loaderFrame, envIdx, envBase, caBase, lprobes >>

\* The rest of GetAllMysqlConfigsFromEnvs: getMysqlConfigFromEnvs(), the
\* append of a complete base configuration, and the return.
LoadBase ==
    /\ Running
    /\ lpc = "base"
    /\ LET cfg == FromEnv(envBase)
       IN  IF cfg.TLS /\ ~CAUsable(envBase)
             THEN /\ caBase' = caBase + 1
                  /\ exitCode' = << ExitSetupError >>
                  /\ lpc' = "exited"
                  /\ UNCHANGED configs
             ELSE /\ caBase' = IF cfg.TLS THEN caBase + 1 ELSE caBase
                  /\ UNCHANGED exitCode
                  /\ lpc' = "done"
                  /\ configs' =
                       IF Complete(cfg)
                         THEN Append(configs,
                                     IF cfg.TLS
                                       THEN [cfg EXCEPT !.TLSConfig = "tlsconf"]
                                       ELSE cfg)
                         ELSE configs
    /\ UNCHANGED << loaderFrame, envIdx, envBase, li, caIdx, lprobes >>

\* One whole CheckConnection call on one of the loaded configurations.
ProbeLoaded ==
    /\ Running
    /\ lpc = "done"
    /\ lprobes < MaxProbes
    /\ \E j \in 1..Len(configs) : \E err \in CheckConnection(configs[j]) :
         lprobes' = lprobes + 1
    /\ UNCHANGED << loaderFrame, exitCode, envIdx, envBase, lpc, li, configs,
                    caIdx, caBase >>

NextLoader ==
    \/ LoadIndexed
    \/ LoadBase
    \/ ProbeLoaded

SpecLoader == InitLoader /\ [][NextLoader]_vars

\* --------------------------------------------------- loader: properties
\* Index i has been read by the loader.
ProcessedIdx(i) == i < li \/ (i = li /\ lpc # "index")
\* The group of variables configs[j] was made from.
SourceOf(j) == IF j <= li THEN EnvAt(j - 1) ELSE envBase
\* MYSQL_TLS of a group of variables asks for TLS.
TLSRequested(slot) == slot.TLS = "true"
\* The four variables without a default are set.
RequiredSet(slot) ==
    slot.Name # "" /\ slot.User # "" /\ slot.Pass # "" /\ slot.Host # ""
\* The first index whose variables are not all set.
FirstGap ==
    CHOOSE k \in 0..(MaxIndex + 1) :
        /\ ~RequiredSet(EnvAt(k))
        /\ \A j \in 0..(k - 1) : RequiredSet(EnvAt(j))
\* The configuration a complete group of variables stands for.
Resolved(slot) ==
    [Name |-> slot.Name, User |-> slot.User, Pass |-> slot.Pass,
     Host |-> slot.Host,
     Port |-> IF slot.Port = "" THEN DefaultPort ELSE slot.Port,
     TLS |-> TLSRequested(slot),
     TLSConfig |-> IF TLSRequested(slot) THEN "tlsconf" ELSE Nil]
\* What GetAllMysqlConfigsFromEnvs is to return for the environment.
ExpectedConfigs ==
    [j \in 1..FirstGap |-> Resolved(EnvAt(j - 1))]
        \o (IF RequiredSet(envBase) THEN << Resolved(envBase) >> ELSE << >>)

\* ------------------------------------------------ exporter: properties
LabelSet == { Labels(config[t]) : t \in Targets }
Reading(c) == cpc[c] = "readDuration"
\* What the Collect call c observes when its second read happens now.
SeenAvailability(c) == snapA[c]
SeenDuration(c) == durationMetric
\* One call of Stop() as a step of the whole process.
StopCall == Stop /\ UNCHANGED notExporter
\* Everything Stop() could touch besides the cancellation of e.ctx.
stopFrame == << notExporter, muWriter, muReaders, availabilityMetric,
               durationMetric, rpc, rphase, tick, wpc, cpc >>
\* No other element of e.configs has the labels of target t.
UniqueIdentity(t) ==
    \A u \in Targets : Labels(config[u]) = Labels(config[t]) => u = t
\* A cycle has completed and none is between its Lock and its Unlock.
CycleCompleted == muWriter = 0 /\ lastDone # {}

\* C2: the cycle holds e.mu exclusively only to swap in finished results,
\* never while a probe of the cycle is in flight, so Collect is not kept
\* waiting by a probe.
C2_NoProbeUnderExclusiveLock ==
    \A s \in Runners : \A t \in Targets :
        wpc[s][t] = "probing" => (muWriter = 0 /\ CanRLock)

\* C3: what a Collect call observes is the initial empty state or the
\* complete result of one single completed cycle.
C3_SnapshotCycleConsistent ==
    \A c \in Collectors :
        Reading(c) =>
            \/ /\ SeenAvailability(c) = Empty
               /\ SeenDuration(c) = Empty
               /\ (~cSeen[c] \/ LabelSet = {})
            \/ \E k \in lastDone :
                  /\ DOMAIN SeenAvailability(c) = LabelSet
                  /\ DOMAIN SeenDuration(c) = LabelSet
                  /\ \A l \in LabelSet : /\ SeenAvailability(c)[l].cyc = k
                                          /\ SeenDuration(c)[l].cyc = k

C3_Witness ==
    \E c \in Collectors :
        /\ Reading(c)
        /\ Cardinality(LabelSet) = 2
        /\ Cardinality(lastDone) = 2
        /\ \A l \in LabelSet : SeenAvailability(c)[l].cyc = 2

\* C4: once Stop() has returned no background loop begins another cycle: no
\* probe is made by a cycle whose tick was taken after the Stop.
C4_NoCycleAfterStop ==
    \A s \in Runners : \A t \in Targets :
        ~(afterStop[s] /\ wpc[s][t] = "probing")

\* C6: a Collect made after Start() has returned observes one availability
\* entry and one duration entry for every configured target, and no other.
C6_PopulatedAfterStart ==
    \A c \in Collectors :
        (Reading(c) /\ cAfterStart[c]) =>
            /\ \A t \in Targets :
                  /\ Labels(config[t]) \in DOMAIN SeenAvailability(c)
                  /\ Labels(config[t]) \in DOMAIN SeenDuration(c)
            /\ DOMAIN SeenAvailability(c) \subseteq LabelSet
            /\ DOMAIN SeenDuration(c) \subseteq LabelSet

C6_Witness ==
    \E c \in Collectors :
        /\ Reading(c)
        /\ cAfterStart[c]
        /\ lastDone = {1}
        /\ Cardinality(LabelSet) = 2
        /\ DOMAIN SeenAvailability(c) = LabelSet

\* ------------------------------------------------ one-shot mode: properties
Finished(t) == gpc[t] \in {"send", "done"}
Succeeded(t) == Finished(t) /\ gerr[t] = Nil
AllFailed(t) == Finished(t) /\ gerr[t] # Nil
Returned == ret # <<>>
ReturnedNil == ret = << Nil >>
ReturnedError == Returned /\ ~ReturnedNil
Carries(msg, reason) == \E j \in 1..Len(msg) : msg[j] = reason

\* The step the goroutine of target t takes next, if it has one.
GoStep(t) ==
    \/ LoopTest(t) /\ UNCHANGED notOneShot
    \/ ProbeReturn(t) /\ UNCHANGED notOneShot
    \/ SleepDone(t) /\ UNCHANGED notOneShot
    \/ Send(t) /\ UNCHANGED notOneShot
\* The goroutine of target t has not ended.
Unfinished(t) == gpc[t] \in {"loop", "probing", "sleeping", "send"}

\* CheckConnections is blocked in `<-errChan`.
RecvBlocked ==
    /\ mainPc = "launch"
    /\ launched = Len(config)
    /\ MoreToReceive
    /\ errChan = <<>>

RECURSIVE SumTo(_, _)
SumTo(f, n) == IF n = 0 THEN 0 ELSE f[n] + SumTo(f, n - 1)
\* CheckConnection calls and time.Sleep calls made by all goroutines.
TotalProbes == SumTo(probes, Len(config))
TotalSleeps == SumTo([t \in Targets |-> Len(sleeps[t])], Len(config))

\* C1: CheckConnections does not return before every launched retry loop has
\* finished (stated for tries >= 1), and so the process does not exit while a
\* retry loop is still running.
C1_ReturnsOnlyAfterAllLoops ==
    (tries >= 1 /\ Returned) => \A t \in Targets : gpc[t] = "done"

\* C5: in one-shot mode (tries >= 1) an exhausted MySQL target makes the
\* process exit with the documented 'attempts exhausted' status, which is not
\* the status of a setup error, and status 0 means every target succeeded.
C5_ExhaustionExitsWithStatus2 ==
    (tries >= 1 /\ ~Running) =>
        /\ DocExitAttemptsExhausted # ExitSetupError
        /\ (\E t \in Targets : AllFailed(t) /\ gpc[t] = "done")
              => exitCode = << DocExitAttemptsExhausted >>
        /\ exitCode = << 0 >> => \A t \in Targets : Succeeded(t)

\* C7: for tries >= 1 CheckConnections returns nil exactly when every
\* target's retry loop ended with a successful probe, and an error when the
\* value it returns on comes from a target that exhausted its retries.
C7_NilIffAllSucceeded ==
    (tries >= 1 /\ Returned) =>
        /\ ReturnedNil => \A t \in Targets : gpc[t] = "done" /\ Succeeded(t)
        /\ ReturnedError => /\ retFrom \in Targets
                            /\ gpc[retFrom] = "done"
                            /\ AllFailed(retFrom)
                            /\ probes[retFrom] = tries
        /\ (\A t \in Targets : gpc[t] = "done" /\ Succeeded(t)) => ReturnedNil

C7_Witness ==
    /\ tries >= 1
    /\ Len(config) = 2
    /\ ReturnedNil
    /\ \E t \in Targets : probes[t] = 2

\* C8: a target whose first k-1 probes fail and whose k-th probe succeeds
\* makes exactly k CheckConnection calls, ends at the first success, reports
\* success, and sleeps k-1 times, the j-th sleep lasting 3*j+1 seconds.
C8_SuccessOnKthProbe ==
    \A t \in Targets :
        /\ (gerr[t] = Nil) => Finished(t)
        /\ Succeeded(t) =>
              LET k == fails[t] + 1 IN
              /\ 1 <= k /\ k <= tries
              /\ probes[t] = k
              /\ Len(sleeps[t]) = k - 1
              /\ \A j \in 1..(k - 1) : sleeps[t][j] = 3 * j + 1
              /\ Outcome(t) = Nil
              /\ gpc[t] = "done" => sent[t] = << Nil >>

C8_Witness ==
    \E t \in Targets :
        /\ gpc[t] = "done"
        /\ gerr[t] = Nil
        /\ fails[t] = 1
        /\ sleeps[t] = << 4 >>

\* C9: for tries >= 1 a target whose every probe fails makes exactly tries
\* CheckConnection calls, never more, and then reports a non-nil error.
C9_ExhaustionAfterExactlyTries ==
    tries >= 1 =>
        \A t \in Targets :
            /\ probes[t] <= tries
            /\ AllFailed(t) =>
                  /\ probes[t] = tries
                  /\ fails[t] = tries
                  /\ Outcome(t) # Nil
                  /\ gpc[t] = "done" => sent[t] = << ExhaustedError(config[t]) >>

C9_Witness ==
    \E t \in Targets :
        /\ tries = 2
        /\ gpc[t] = "done"
        /\ fails[t] = 2
        /\ sent[t] # << Nil >>

\* C10: the error CheckConnections returns for an exhausted target carries
\* the reason of that target's last failed probe.
C10_ErrorCarriesLastReason ==
    (tries >= 1 /\ ReturnedError) => Carries(ret[1], gerr[retFrom])

\* C11: when one target exhausts its attempts (tries >= 1) CheckConnections
\* returns a failure that names that target's host, database and port, and
\* when the process has ended every other target's retry loop has run to its
\* own conclusion, with the probes its own outcomes call for.
C11_SiblingsRunToConclusion ==
    (tries >= 1 /\ ReturnedError /\ ~Running) =>
        /\ retFrom \in Targets
        /\ AllFailed(retFrom)
        /\ Carries(ret[1], config[retFrom].Host)
        /\ Carries(ret[1], config[retFrom].Name)
        /\ Carries(ret[1], config[retFrom].Port)
        /\ \A t \in Targets \ {retFrom} :
              /\ gpc[t] = "done"
              /\ probes[t] = IF gerr[t] = Nil THEN fails[t] + 1 ELSE tries

\* C12: when every one of the N targets (N >= 0) succeeds on its first probe,
\* CheckConnections returns nil after exactly N CheckConnection calls in
\* total and no back-off sleep.
C12_AllFirstProbeSuccess ==
    (Returned /\ \A t \in Targets : gerr[t] = Nil /\ fails[t] = 0) =>
        /\ ReturnedNil
        /\ TotalProbes = Len(config)
        /\ TotalSleeps = 0

C12_Witness ==
    /\ Len(config) = 2
    /\ ReturnedNil
    /\ \A t \in Targets : gerr[t] = Nil /\ fails[t] = 0
    /\ TotalProbes = 2

\* C13: over an empty target list CheckConnections returns nil for any tries
\* value: it starts no goroutine, makes no probe, and is never blocked on
\* errChan.
C13_EmptyListReturnsNil ==
    Len(config) = 0 =>
        /\ launched = 0
        /\ TotalProbes = 0
        /\ received = 0
        /\ ~RecvBlocked
        /\ Returned => ReturnedNil

C13_Witness ==
    /\ Len(config) = 0
    /\ tries < 0
    /\ ReturnedNil

\* C14: every cycle calls CheckConnection exactly once per configured target
\* and never again after a failure, starts all its workers together, and no
\* Collect reads the vectors while a cycle is between its Reset and the end
\* of its last worker.
C14_OneProbePerTargetPerCycle ==
    \A s \in Runners :
        /\ \A t \in Targets :
              /\ wcalls[s][t] <= 1
              /\ wpc[s][t] = "probing" => wcalls[s][t] = 0
              /\ wpc[s][t] \in {"setDuration", "done"} => wcalls[s][t] = 1
        /\ rpc[s] = "checking" =>
              /\ \A t \in Targets : wpc[s][t] # "none"
              /\ \A c \in Collectors : cpc[c] = "idle"

C14_Witness ==
    \E s \in Runners :
        /\ rphase[s] = "loop"
        /\ rpc[s] = "checking"
        /\ Len(config) = 2
        /\ wpc[s][1] = "probing"
        /\ wpc[s][2] = "done"
        /\ availabilityMetric[Labels(config[2])].val = 0

\* C15: after a completed cycle the availability gauge of every target with
\* a unique (host, port, database) identity is 1 if that target's probe in
\* the cycle succeeded and 0 if it failed; a failed probe ends neither the
\* process nor the background loop, which exits only after Stop().
C15_GaugeMatchesProbe ==
    /\ Running
    /\ \A s \in Runners : rpc[s] = "exited" => cancelled
    /\ CycleCompleted =>
          \A t \in Targets :
              UniqueIdentity(t) =>
                  /\ Labels(config[t]) \in DOMAIN availabilityMetric
                  /\ LET e == availabilityMetric[Labels(config[t])] IN
                     /\ e.cyc \in lastDone
                     /\ e.ok => e.val = 1
                     /\ ~e.ok => e.val = 0

C15_Witness ==
    /\ CycleCompleted
    /\ lastDone = {1, 2}
    /\ Len(config) = 2
    /\ \A t \in Targets : UniqueIdentity(t)
    /\ availabilityMetric[Labels(config[1])].val = 0
    /\ availabilityMetric[Labels(config[2])].val = 1
    /\ availabilityMetric[Labels(config[2])].ok
    /\ \E s \in Runners : rpc[s] = "select" /\ ~cancelled

\* C16: a cycle that had a probe in flight when Stop() was called is not
\* aborted: each of its workers goes on through its own steps, and the cycle
\* ends only when all of them are done, publishing one availability and one
\* duration entry of that cycle per target.
C16_StopDoesNotAbortCycle ==
    [][ \A s \in Runners :
          stopMid[s] =>
              /\ rpc[s] = "checking"
              /\ \A t \in Targets :
                    \/ wpc'[s][t] = wpc[s][t]
                    \/ wpc[s][t] = "probing" /\ wpc'[s][t] = "setDuration"
                    \/ wpc[s][t] = "setDuration" /\ wpc'[s][t] = "done"
                    \/ wpc[s][t] = "done" /\ rpc'[s] # "checking"
              /\ rpc'[s] # "checking" =>
                    /\ \A t \in Targets : wpc[s][t] = "done" /\ wcalls[s][t] = 1
                    /\ rcyc[s] \in lastDone'
                    /\ DOMAIN availabilityMetric' = LabelSet
                    /\ DOMAIN durationMetric' = LabelSet
                    /\ \A l \in LabelSet :
                          /\ availabilityMetric'[l].cyc = rcyc[s]
                          /\ durationMetric'[l].cyc = rcyc[s]
      ]_vars

C16_Witness ==
    \E s \in Runners :
        /\ stopMid[s]
        /\ Len(config) = 2
        /\ WaitDone(s)
        /\ DOMAIN durationMetric = LabelSet
        /\ Cardinality(LabelSet) = 2

\* C17: in every state (before Start(), during a cycle, after the loop has
\* exited, after an earlier Stop()) a call of Stop() can return, ends with
\* e.ctx cancelled and the process running, and changes nothing else, so a
\* repeated Stop() leaves the state of a single one.
C17_StopSafeAndIdempotent ==
    /\ ENABLED StopCall
    /\ ~ENABLED (StopCall /\ (~cancelled' \/ stopFrame' # stopFrame))
    /\ cancelled => ~ENABLED (StopCall /\ (cancelled' # cancelled))

C17_Witness ==
    /\ cancelled
    /\ rpc[1] = "exited"
    /\ rpc[2] = "checking"
    /\ stopMid[2]

\* C18: while the process runs, no target's retry loop is held up by
\* another's: the next target's loop can be started whatever the earlier
\* targets are doing, and every unfinished loop can take its next step
\* (probe result, end of sleep, send of its result) whatever the state of
\* the other loops.
C18_LoopsIndependent ==
    Running =>
        /\ (mainPc = "launch" /\ launched < Len(config))
              => ENABLED (Launch /\ UNCHANGED notOneShot)
        /\ \A t \in Targets : Unfinished(t) => ENABLED GoStep(t)

C18_Witness ==
    /\ Running
    /\ Len(config) = 2
    /\ gpc[1] = "sleeping"
    /\ fails[1] = 1
    /\ gpc[2] = "probing"
    /\ gi[2] = 2

\* C19: a probe that failed because the TLS configuration cannot be
\* registered is not retried: the goroutine neither sleeps for that failure
\* nor calls CheckConnection again after it.
C19_TLSFailureNotRetried ==
    \A t \in Targets :
        gerr[t] = ErrRegisterTLS =>
            /\ gpc[t] \notin {"sleeping", "probing"}
            /\ Len(sleeps[t]) < fails[t]

\* C20: an exporter constructed with a zero check interval stores and ticks
\* with the documented default of 30 seconds; one constructed with a positive
\* interval stores and ticks with that interval.
C20_ZeroIntervalDefaults ==
    (checkInterval # <<>>) =>
        /\ checkIntervalArg = << 0 >> =>
              /\ checkInterval = << DocDefaultCheckInterval >>
              /\ ipc # "exited"
              /\ ipc = "ticking" => ticker = << DocDefaultCheckInterval >>
        /\ checkIntervalArg[1] > 0 =>
              /\ checkInterval = checkIntervalArg
              /\ ipc # "exited"
              /\ ipc = "ticking" => ticker = checkIntervalArg

C20_Witness ==
    /\ envCheckInterval = [kind |-> "number", val |-> 0]
    /\ checkIntervalArg = << 0 >>
    /\ ipc = "ticking"
    /\ ticker = << 30 >>

\* C21: main rejects a TRIES below 1 before CheckConnections is called, so
\* no retry goroutine ever runs with tries < 1.
C21_TriesBelowOneRejected ==
    (mainPc \in {"launch", "returned"} \/ launched > 0) => tries >= 1

\* C22: whenever CheckConnection has returned (success, query error,
\* deadline exceeded, unreadable row, or an earlier failure) nothing it opened
\* is still open: with no call in progress there is no open connection.
C22_ConnectionReleased ==
    /\ ppc = "idle" => popen = {}
    /\ ppc = "return" => popen \subseteq Range(pdefers)
    /\ "rows" \in popen => "db" \in popen

C22_Witness ==
    /\ ppc = "idle"
    /\ pcalls = 2
    /\ pcause = "deadline"
    /\ pret = << ErrGetTables >>
    /\ popen = {}

\* C23: a cycle starts from empty vectors and repopulates them: while it runs
\* every entry present is one it wrote itself, and after a completed cycle
\* both vectors hold exactly the label sets of the configured targets, all
\* written by one and the same completed cycle.
C23_ResetAndRepopulate ==
    /\ \A s \in Runners :
          rpc[s] = "checking" =>
              /\ \A l \in DOMAIN availabilityMetric :
                    availabilityMetric[l].cyc = rcyc[s]
              /\ \A l \in DOMAIN durationMetric :
                    durationMetric[l].cyc = rcyc[s]
    /\ CycleCompleted =>
          /\ DOMAIN availabilityMetric = LabelSet
          /\ DOMAIN durationMetric = LabelSet
          /\ \E k \in lastDone :
                \A l \in LabelSet : /\ availabilityMetric[l].cyc = k
                                    /\ durationMetric[l].cyc = k

C23_Witness ==
    /\ CycleCompleted
    /\ lastDone = {1, 2}
    /\ Cardinality(LabelSet) = 2
    /\ \A l \in LabelSet : /\ availabilityMetric[l].cyc = 2
                           /\ durationMetric[l].cyc = 2

\* C24: a group of variables that does not ask for TLS never makes the
\* loader read a CA file and yields a configuration without TLSConfig; one
\* that asks for TLS makes it read the CA file exactly once when it is
\* resolved; CheckConnection calls on the loaded configurations read none.
C24_TLSMaterialLoadedOnce ==
    /\ \A i \in 0..(MaxIndex + 1) :
          /\ caIdx[i + 1] <= 1
          /\ ~TLSRequested(EnvAt(i)) => caIdx[i + 1] = 0
          /\ ~ProcessedIdx(i) => caIdx[i + 1] = 0
          /\ (TLSRequested(EnvAt(i)) /\ ProcessedIdx(i)) => caIdx[i + 1] = 1
    /\ caBase <= 1
    /\ ~TLSRequested(envBase) => caBase = 0
    /\ (TLSRequested(envBase) /\ lpc = "done") => caBase = 1
    /\ \A j \in 1..Len(configs) :
          /\ configs[j].TLS = TLSRequested(SourceOf(j))
          /\ configs[j].TLS => configs[j].TLSConfig # Nil
          /\ ~configs[j].TLS => configs[j].TLSConfig = Nil

C24_Witness ==
    /\ lpc = "done"
    /\ lprobes = MaxProbes
    /\ Len(configs) = 3
    /\ configs[1].TLS
    /\ ~configs[2].TLS
    /\ caIdx[1] = 1
    /\ caIdx[2] = 0
    /\ caBase = 1

\* C25: when GetAllMysqlConfigsFromEnvs returns, its result is the indexed
\* configurations 0, 1, ... in order up to the first incomplete index,
\* followed by the un-indexed configuration exactly when that one is
\* complete; it fails to return only by the exit of mysqlTLSConfig.
C25_IndexedPrefixThenBase ==
    /\ lpc = "done" => configs = ExpectedConfigs
    /\ lpc = "exited" =>
          \/ TLSRequested(EnvAt(li)) /\ ~CAUsable(EnvAt(li)) /\ li <= FirstGap
          \/ TLSRequested(envBase) /\ ~CAUsable(envBase) /\ li = FirstGap

C25_Witness ==
    /\ lpc = "done"
    /\ ~RequiredSet(EnvAt(0))
    /\ RequiredSet(EnvAt(1))
    /\ RequiredSet(envBase)
    /\ envBase.Port = ""
    /\ configs = << Resolved(envBase) >>

\* C26: once Stop() has been called, every background loop that is running
\* or comes to run eventually exits, however ticks, cycles and the
\* cancellation interleave.
C26_LoopTerminatesAfterStop ==
    \A s \in Runners :
        (cancelled /\ rphase[s] = "loop") ~> (rpc[s] = "exited")

C26_Witness ==
    \E s \in Runners :
        /\ cancelled
        /\ rpc[s] = "exited"
        /\ cycleSeq = MaxCycles
        /\ MaxCycles \in lastDone

\* C27: a backoff sleep happens only before a retry: a goroutine never sleeps
\* after its attempt number tries, so one that exhausts its attempts has slept
\* exactly tries - 1 times.
C27_SleepOnlyBeforeRetry ==
    tries >= 1 =>
        \A t \in Targets :
            /\ gpc[t] = "sleeping" => gi[t] < tries
            /\ (gpc[t] \in {"send", "done"} /\ LoopExhausted(gi[t], tries)) =>
                  Len(sleeps[t]) = tries - 1

\* C28: duplicate target descriptors are not deduplicated: every copy is
\* probed in each cycle, and once a cycle is complete each copy has an entry
\* of its own in both published vectors (as many entries as descriptors).
C28_DuplicatesCountedSeparately ==
    /\ \A s \in Runners :
           (rpc[s] = "checking" /\ WaitDone(s)) =>
               \A t \in Targets : wcalls[s][t] = 1
    /\ CycleCompleted =>
           /\ Cardinality(DOMAIN availabilityMetric) = Len(config)
           /\ Cardinality(DOMAIN durationMetric) = Len(config)

\* The Start invocations whose performChecks holds e.mu.
InCycle == { s \in Runners : rpc[s] = "checking" }

\* The Collect calls between their RLock and their RUnlock.
InReadSection == { c \in Collectors : cpc[c] \in {"readAvailability", "readDuration"} }

InChanFrom(t) == { k \in 1..Len(errChan) : errChan[k].from = t }

\* C31: a retry goroutine never blocks when it delivers its outcome: errChan
\* never holds more than len(config) values, each goroutine sends exactly
\* once, and a goroutine that has reached its send can always complete it,
\* also when CheckConnections has already returned on an earlier failure.
C31_SendNeverBlocks ==
    /\ Len(errChan) <= Len(config)
    /\ \A t \in Targets :
           /\ Cardinality(InChanFrom(t)) <= 1
           /\ (sent[t] # <<>>) <=> (gpc[t] = "done")
           /\ InChanFrom(t) # {} => gpc[t] = "done"
           /\ (Running /\ gpc[t] = "send") =>
                  ENABLED (Send(t) /\ UNCHANGED notOneShot)

C31_Witness ==
    /\ Len(config) = MaxTargets
    /\ mainPc = "returned"
    /\ ret # << Nil >>
    /\ \A t \in Targets : gpc[t] = "done"
    /\ errChan # <<>>

\* C32: for every integer tries, zero and negative ones included, over a
\* non-empty list CheckConnections returns nil only if every target was
\* probed and its latest probe succeeded.
C32_NoSuccessWithoutProbe ==
    (ret = << Nil >> /\ Len(config) > 0) =>
        \A t \in Targets :
            /\ probes[t] >= 1
            /\ gerr[t] = Nil

\* C33: whatever checkInterval NewMultiMySQLExporter is given (zero,
\* positive or negative), the interval it stores is strictly positive, so
\* Start() creates its ticker and the process does not end on the interval.
C33_IntervalAlwaysPositive ==
    (checkInterval # <<>>) =>
        /\ checkInterval[1] > 0
        /\ ipc # "exited"
        /\ exitCode = <<>>

\* C34: an exporter cannot be restarted: e.ctx stays cancelled, and a
\* Start() issued after Stop() runs its synchronous first cycle only; its
\* loop never takes a tick, so in its loop phase it is at the select or has
\* returned, and no cycle but the first of each Start() is ever run.
C34_NoRestartAfterStop ==
    \A s \in Runners :
        /\ rpc[s] # "idle" => cancelled
        /\ rphase[s] = "loop" => rpc[s] \in {"select", "exited"}
        /\ ~afterStop[s]

\* A step of a worker of the cycle s is running: wpc[s] changes while s stays
\* inside performChecks.
WorkerStepOf(s) ==
    /\ rpc[s] = "checking"
    /\ rpc'[s] = "checking"
    /\ wpc'[s] # wpc[s]

\* C35: the exporter is deadlock-free: no step of a probe worker touches
\* e.mu, a cycle that holds the exclusive lock gives it back once its probes
\* have returned, and a Collect call waiting for the lock acquires it and
\* returns.
C35_DeadlockFree ==
    /\ [][\A s \in Runners :
              WorkerStepOf(s) => UNCHANGED << muWriter, muReaders >>]_vars
    /\ (rpc[FirstStart] = "checking") ~> (muWriter # FirstStart)
    /\ \A c \in Collectors :
          /\ (cpc[c] = "idle") ~> (c \in muReaders)
          /\ (c \in muReaders) ~> (cpc[c] = "idle")

C35_Witness ==
    \E c \in Collectors :
        /\ c \in muReaders
        /\ cpc[c] = "readAvailability"
        /\ MaxCycles \in lastDone
        /\ ~cancelled
        /\ \E s \in Runners : rphase[s] = "loop" /\ tick[s]

\* C36: the exhaustion error a goroutine sends names its target in the
\* layout of that target's per-attempt diagnostics: [host:port/name].
C36_ExhaustionErrorIdentity ==
    \A t \in Targets :
        (sent[t] # <<>> /\ sent[t] # << Nil >>) =>
            SubSeq(sent[t][1], 1, Len(DiagnosticIdentity(config[t])))
                = DiagnosticIdentity(config[t])

\* C37: with DB_TYPE=mongodb the MongoDB loop starts only after
\* CheckConnections has returned nil, makes at most tries attempts and none
\* after a success, and the process exits with the documented 'attempts
\* exhausted' status exactly when all tries attempts ended in a retryable
\* failure.
C37_MongoLoop ==
    tries >= 1 =>
        /\ (mprobes > 0 \/ mainPc \in {"mongo", "mongoDone"}) =>
              /\ dbType = "mongodb"
              /\ ret = << Nil >>
        /\ mprobes <= tries
        /\ mprobes \in {mi - 1, mi}
        /\ (exitCode = << DocExitAttemptsExhausted >>) <=>
              /\ mainPc = "exited"
              /\ mprobes = tries
              /\ LoopExhausted(mi, tries)
====
